---- MODULE Spec2Model ----
(***************************************************************************)
(* The http_client connector of tremor-runtime                             *)
(* (src/src/connectors/impls/http/client.rs): the sink that dispatches     *)
(* events to spawned exchange tasks, the pool of clients it rotates over,  *)
(* the delivery channel the tasks answer on and the source that reads it.  *)
(*                                                                         *)
(* ConcurrencyCap (crate::connectors::sink::concurrency_cap) is used by    *)
(* the sink but is not part of the sources at hand; IncFor and DropGuard   *)
(* follow the description of the admission controller (spec.md 4.1).       *)
(***************************************************************************)
EXTENDS Integers, Sequences, FiniteSets, TLC

\* ---------------------------------------------------------------- bounds
MaxConcurrency == 3     \* the largest max_concurrency (Spec takes 1 and this one)
MaxEvents == 2          \* events handed to on_event
MaxConnects == 2        \* connect() attempts
MaxUnits == 1           \* decoded units of one response
ChannelCap == 1         \* capacity of the two channels, bounded(128) in the source
MaxCallers == 3         \* callers of the admission controller (CapSpec)
MaxCalls == 4           \* inc_for calls in all (CapSpec)
MaxPool == 3            \* clients of a pool (PoolSpec)
MaxNextCalls == 7       \* next() calls in all (PoolSpec)
E2EConcurrency == 2     \* max_concurrency of the end-to-end scenario (E2ESpec)
E2EEvents == 5          \* events of the end-to-end scenario (E2ESpec)
ChanConcurrency == 2    \* max_concurrency while shutting down (ChanSpec)
MaxAuthLen == 2         \* length of the credentials drawn (AuthSpec)
MaxAuthCalls == 2       \* as_header_value calls on one strategy (AuthSpec)
MaxBuildCalls == 2      \* from_config calls on one configuration (BuildSpec)
RefreshConcurrency == 2 \* max_concurrency with queued pool lists (RefreshSpec)
RefreshChanCap == 2     \* capacity of the refresh channel (RefreshSpec)

Callers == 1..MaxCallers

VARIABLES
    max_concurrency,    \* HttpClient.max_concurrency
    attempts,           \* connect() calls so far
    clients_chan,       \* clients_tx / clients_rx: lists in flight
    clients,            \* HttpRequestSink.clients.clients
    idx,                \* HttpRequestSink.clients.idx
    cap_max,            \* ConcurrencyCap: the configured maximum
    counter,            \* ConcurrencyCap: permits that are live
    cb_closed,          \* ConcurrencyCap: a close was sent and no restore since
    cb_log,             \* what was sent on reply_tx, in order
    sink_pc,            \* where on_event stands
    cur,                \* the event on_event is handling (0: none)
    pend,               \* the result on_event is about to return
    nevents,            \* events the pipeline will hand to on_event
    submitted,          \* events handed to on_event so far
    result,             \* what on_event returned, per event
    polled,             \* the refresh poll of the event's on_event got a list
    next_ret,           \* what clients.next() returned, per event
    next_log,           \* clients returned by next() since the last swap
    acquired,           \* permits granted, per event
    released,           \* permits released, per event
    task,               \* the spawned task of each event
    response_chan,      \* response_tx / response_rx: replies in flight
    alive,              \* which of connector, source and sink are not dropped yet
    received,           \* replies pull_data returned, per request, in order
    last_pull,          \* outcome of the last pull_data
    holder,             \* CapSpec: the state of each caller
    calls,              \* CapSpec, PoolSpec: calls made so far
    arg,                \* AuthSpec, BuildSpec: what the function is called on
    ret                 \* AuthSpec, BuildSpec: what its calls returned, in order

vars == <<max_concurrency, attempts, clients_chan, clients, idx, cap_max, counter,
          cb_closed, cb_log, sink_pc, cur, pend, nevents, submitted, result, polled, next_ret,
          next_log, acquired, released, task, response_chan, alive, received,
          last_pull, holder, calls, arg, ret>>

connVars == <<max_concurrency, attempts, clients_chan>>
poolVars == <<clients, idx, next_log>>
capVars == <<cap_max, counter, cb_closed, cb_log>>
sinkVars == <<sink_pc, cur, pend, nevents, submitted, result, polled, next_ret,
              acquired, released>>
Events == 1..nevents
taskVars == <<task>>
srcVars == <<response_chan, alive, received, last_pull>>
harnessVars == <<holder, calls>>
pureVars == <<arg, ret>>

\* ------------------------------------------------------------ the pool
\* A client is known by the connect() attempt that made it and its place.
NoOutcome == [kind |-> "none", units |-> 0]
NoTask == [st |-> "none", client |-> <<>>, meta |-> 0, outcome |-> NoOutcome,
           out |-> <<>>]

\* connect(): for _i in 1..max_concurrency { clients.push(..) }
NewClients(attempt, n) == [i \in 1..(n - 1) |-> [gen |-> attempt, slot |-> i]]

\* mutant: the cursor is used as the index without the modulo
SurfClientsNextNoWrap(list, i) ==
    IF i < Len(list) THEN <<list[i + 1]>> ELSE <<>>

\* mutant: the cursor is advanced before it is read
SurfClientsNextSkip(list, i) ==
    IF Len(list) > 0 THEN <<list[((i + 1) % Len(list)) + 1]>> ELSE <<>>

\* SurfClients::next: the client handed out, <<>> for None
SurfClientsNext(list, i) ==
    IF Len(list) > 0 THEN <<list[(i % Len(list)) + 1]>> ELSE <<>>

\* SurfClients::next: the cursor afterwards
SurfClientsIdx(list, i) == IF Len(list) > 0 THEN i + 1 ELSE i

\* mutant: the delivered list replaces the pool and the cursor is kept
RefreshClientsKeepsCursor ==
    IF Len(clients_chan) > 0
    THEN /\ clients' = Head(clients_chan)
         /\ idx' = idx
         /\ next_log' = <<>>
         /\ clients_chan' = Tail(clients_chan)
    ELSE UNCHANGED <<clients, idx, next_log, clients_chan>>

\* mutant: the delivered list is added to the pool instead of replacing it
RefreshClientsMerge ==
    IF Len(clients_chan) > 0
    THEN /\ clients' = clients \o Head(clients_chan)
         /\ idx' = idx
         /\ next_log' = next_log
         /\ clients_chan' = Tail(clients_chan)
    ELSE UNCHANGED <<clients, idx, next_log, clients_chan>>

\* HttpRequestSink::refresh_clients: one try_recv, a whole new SurfClients
RefreshClients ==
    IF Len(clients_chan) > 0
    THEN /\ clients' = Head(clients_chan)
         /\ idx' = 0
         /\ next_log' = <<>>
         /\ clients_chan' = Tail(clients_chan)
    ELSE UNCHANGED <<clients, idx, next_log, clients_chan>>

\* -------------------------------------------- the admission controller
\* mutant: at the bound inc_for hands out a permit all the same
IncForNoBound(suspended) ==
    /\ counter' = counter + 1
    /\ UNCHANGED <<cap_max, cb_closed, cb_log>>

\* inc_for: a free slot is reserved at once; at the bound the caller
\* suspends and a close goes out on reply_tx (once until restored).
\* `suspended`: the caller is already waiting inside inc_for.
Admits == counter < cap_max

IncFor(suspended) ==
    IF Admits
    THEN /\ counter' = counter + 1
         /\ UNCHANGED <<cap_max, cb_closed, cb_log>>
    ELSE /\ ~suspended
         /\ IF cb_closed
            THEN UNCHANGED <<cb_closed, cb_log>>
            ELSE /\ cb_closed' = TRUE
                 /\ cb_log' = Append(cb_log, "close")
         /\ UNCHANGED <<cap_max, counter>>

\* mutant: the drop gives the slot back and sends nothing
DropGuardSilent ==
    /\ counter' = counter - 1
    /\ UNCHANGED <<cap_max, cb_closed, cb_log>>

\* the guard's drop: the slot is given back; a restore goes out if the
\* controller had closed
DropGuard ==
    /\ counter' = counter - 1
    /\ IF cb_closed
       THEN /\ cb_closed' = FALSE
            /\ cb_log' = Append(cb_log, "restore")
       ELSE UNCHANGED <<cb_closed, cb_log>>
    /\ UNCHANGED cap_max

\* ----------------------------------------------------------------- Init
InitCommon ==
    /\ attempts = 0
    /\ clients_chan = <<>>
    /\ clients = <<>>
    /\ idx = 0
    /\ next_log = <<>>
    /\ counter = 0
    /\ cb_closed = FALSE
    /\ cb_log = <<>>
    /\ sink_pc = "idle"
    /\ cur = 0
    /\ pend = "none"
    /\ submitted = 0
    /\ result = [e \in Events |-> "pending"]
    /\ polled = [e \in Events |-> FALSE]
    /\ next_ret = [e \in Events |-> "unset"]
    /\ acquired = [e \in Events |-> 0]
    /\ released = [e \in Events |-> 0]
    /\ task = [e \in Events |-> NoTask]
    /\ response_chan = <<>>
    /\ alive = {"connector", "source", "sink"}
    /\ received = [e \in Events |-> <<>>]
    /\ last_pull = "none"
    /\ calls = 0

\* no function of AuthSpec or BuildSpec is called
InitPure == arg = <<>> /\ ret = <<>>

\* mutant: the sink hands the controller one slot too many
SinkNewOffByOne(n) == n + 1

\* HttpRequestSink::new hands max_in_flight_requests to ConcurrencyCap::new
SinkNew(n) == n

\* max_concurrency is the smallest or the largest value of its range
Init ==
    /\ max_concurrency \in {1, MaxConcurrency}
    /\ cap_max = SinkNew(max_concurrency)
    /\ nevents = MaxEvents
    /\ holder = [c \in Callers |-> "unused"]
    /\ InitCommon
    /\ InitPure

\* ------------------------------------------------------------- connect
ConnectWithCap(cap) ==
    /\ "connector" \in alive
    /\ attempts < MaxConnects
    /\ Len(clients_chan) < cap
    /\ attempts' = attempts + 1
    /\ clients_chan' = Append(clients_chan, NewClients(attempts + 1, max_concurrency))
    /\ UNCHANGED <<max_concurrency, poolVars, capVars, sinkVars, taskVars, srcVars,
                   harnessVars, pureVars>>

Connect == ConnectWithCap(ChannelCap)

\* ------------------------------------------------------------ on_event

\* mutant: a swap ends the tasks that run on a client of the old pool
OnEventRefreshCancel ==
    /\ "sink" \in alive
    /\ sink_pc = "idle"
    /\ submitted < nevents
    /\ submitted' = submitted + 1
    /\ cur' = submitted + 1
    /\ RefreshClients
    /\ polled' = [polled EXCEPT ![submitted + 1] = Len(clients_chan) > 0]
    /\ sink_pc' = "inc_for"
    /\ task' = [e \in Events |->
                   IF Len(clients_chan) > 0 /\ task[e].st \in {"invoke", "send"}
                   THEN [task[e] EXCEPT !.st = "ended", !.out = <<>>]
                   ELSE task[e]]
    /\ UNCHANGED <<max_concurrency, attempts, capVars, pend, nevents, result,
                   next_ret, acquired, released, srcVars, harnessVars, pureVars>>

\* line 258: the refresh poll
OnEventRefresh ==
    /\ "sink" \in alive
    /\ sink_pc = "idle"
    /\ submitted < nevents
    /\ submitted' = submitted + 1
    /\ cur' = submitted + 1
    /\ RefreshClients
    /\ polled' = [polled EXCEPT ![submitted + 1] = Len(clients_chan) > 0]
    /\ sink_pc' = "inc_for"
    /\ UNCHANGED <<max_concurrency, attempts, capVars, pend, nevents, result,
                   next_ret, acquired, released, taskVars, srcVars, harnessVars, pureVars>>

\* line 260: the permit
OnEventIncFor ==
    /\ sink_pc \in {"inc_for", "inc_wait"}
    /\ IncFor(sink_pc = "inc_wait")
    /\ IF Admits
       THEN /\ sink_pc' = "dispatch"
            /\ acquired' = [acquired EXCEPT ![cur] = @ + 1]
       ELSE /\ sink_pc' = "inc_wait"
            /\ UNCHANGED acquired
    /\ UNCHANGED <<connVars, poolVars, cur, pend, nevents, submitted, result,
                   polled, next_ret, released, taskVars, srcVars, harnessVars, pureVars>>

\* mutant: the no-client branch falls through to Ok(SinkReply::NONE)
OnEventNoClientNone ==
    /\ sink_pc = "dispatch"
    /\ SurfClientsNext(clients, idx) = <<>>
    /\ idx' = SurfClientsIdx(clients, idx)
    /\ next_ret' = [next_ret EXCEPT ![cur] = "absent"]
    /\ pend' = "NONE"
    /\ sink_pc' = "return"
    /\ UNCHANGED <<connVars, clients, next_log, capVars, cur, nevents, submitted,
                   result, polled, acquired, released, taskVars, srcVars,
                   harnessVars, pureVars>>


\* mutant: the no-client branch moves the cursor on all the same
OnEventNoClientAdvances ==
    /\ sink_pc = "dispatch"
    /\ SurfClientsNext(clients, idx) = <<>>
    /\ idx' = idx + 1
    /\ next_ret' = [next_ret EXCEPT ![cur] = "absent"]
    /\ pend' = "FAIL"
    /\ sink_pc' = "return"
    /\ UNCHANGED <<connVars, clients, next_log, capVars, cur, nevents, submitted,
                   result, polled, acquired, released, taskVars, srcVars,
                   harnessVars, pureVars>>

\* lines 262, 332-334: no client
OnEventNoClient ==
    /\ sink_pc = "dispatch"
    /\ SurfClientsNext(clients, idx) = <<>>
    /\ idx' = SurfClientsIdx(clients, idx)
    /\ next_ret' = [next_ret EXCEPT ![cur] = "absent"]
    /\ pend' = "FAIL"
    /\ sink_pc' = "return"
    /\ UNCHANGED <<connVars, clients, next_log, capVars, cur, nevents, submitted,
                   result, polled, acquired, released, taskVars, srcVars,
                   harnessVars, pureVars>>

\* lines 267-279, 331: process(), a processor lookup or the spawn fails
OnEventError ==
    /\ sink_pc = "dispatch"
    /\ SurfClientsNext(clients, idx) # <<>>
    /\ idx' = SurfClientsIdx(clients, idx)
    /\ next_log' = next_log \o SurfClientsNext(clients, idx)
    /\ next_ret' = [next_ret EXCEPT ![cur] = "client"]
    /\ pend' = "ERR"
    /\ sink_pc' = "return"
    /\ UNCHANGED <<connVars, clients, capVars, cur, nevents, submitted,
                   result, polled, acquired, released, taskVars, srcVars,
                   harnessVars, pureVars>>

\* mutant: the task is given the request metadata of the event before
OnEventSpawnStaleMeta ==
    /\ sink_pc = "dispatch"
    /\ SurfClientsNext(clients, idx) # <<>>
    /\ idx' = SurfClientsIdx(clients, idx)
    /\ next_log' = next_log \o SurfClientsNext(clients, idx)
    /\ next_ret' = [next_ret EXCEPT ![cur] = "client"]
    /\ task' = [task EXCEPT ![cur] = [st |-> "invoke",
                                      client |-> SurfClientsNext(clients, idx),
                                      meta |-> IF cur > 1 THEN cur - 1 ELSE cur,
                                      outcome |-> NoOutcome,
                                      out |-> <<>>]]
    /\ pend' = "NONE"
    /\ sink_pc' = "return"
    /\ UNCHANGED <<connVars, clients, capVars, cur, nevents, submitted, result,
                   polled, acquired, released, srcVars, harnessVars, pureVars>>

\* lines 262-331: the task is spawned with the client and the request
OnEventSpawn ==
    /\ sink_pc = "dispatch"
    /\ SurfClientsNext(clients, idx) # <<>>
    /\ idx' = SurfClientsIdx(clients, idx)
    /\ next_log' = next_log \o SurfClientsNext(clients, idx)
    /\ next_ret' = [next_ret EXCEPT ![cur] = "client"]
    /\ task' = [task EXCEPT ![cur] = [st |-> "invoke",
                                      client |-> SurfClientsNext(clients, idx),
                                      meta |-> cur,
                                      outcome |-> NoOutcome,
                                      out |-> <<>>]]
    /\ pend' = "NONE"
    /\ sink_pc' = "return"
    /\ UNCHANGED <<connVars, clients, capVars, cur, nevents, submitted, result,
                   polled, acquired, released, srcVars, harnessVars, pureVars>>


\* mutant: on_event joins the task it spawned before it returns
OnEventReturnAwaitsTask ==
    /\ sink_pc = "return"
    /\ task[cur].st \in {"none", "ended"}
    /\ DropGuard
    /\ released' = [released EXCEPT ![cur] = @ + 1]
    /\ result' = [result EXCEPT ![cur] = pend]
    /\ pend' = "none"
    /\ cur' = 0
    /\ sink_pc' = "idle"
    /\ UNCHANGED <<connVars, poolVars, nevents, submitted, polled, next_ret,
                   acquired, taskVars, srcVars, harnessVars, pureVars>>


\* mutant: the guard is leaked when on_event returns an error
OnEventReturnLeakOnError ==
    /\ sink_pc = "return"
    /\ IF pend = "ERR"
       THEN UNCHANGED <<capVars, released>>
       ELSE /\ DropGuard
            /\ released' = [released EXCEPT ![cur] = @ + 1]
    /\ result' = [result EXCEPT ![cur] = pend]
    /\ pend' = "none"
    /\ cur' = 0
    /\ sink_pc' = "idle"
    /\ UNCHANGED <<connVars, poolVars, nevents, submitted, polled, next_ret,
                   acquired, taskVars, srcVars, harnessVars, pureVars>>

\* mutant: the guard is leaked on the no-client return
OnEventReturnLeak ==
    /\ sink_pc = "return"
    /\ IF pend = "FAIL"
       THEN UNCHANGED <<capVars, released>>
       ELSE /\ DropGuard
            /\ released' = [released EXCEPT ![cur] = @ + 1]
    /\ result' = [result EXCEPT ![cur] = pend]
    /\ pend' = "none"
    /\ cur' = 0
    /\ sink_pc' = "idle"
    /\ UNCHANGED <<connVars, poolVars, nevents, submitted, polled, next_ret,
                   acquired, taskVars, srcVars, harnessVars, pureVars>>

\* lines 334, 337, and every `?`: on_event returns and `guard` goes out of scope
OnEventReturn ==
    /\ sink_pc = "return"
    /\ DropGuard
    /\ released' = [released EXCEPT ![cur] = @ + 1]
    /\ result' = [result EXCEPT ![cur] = pend]
    /\ pend' = "none"
    /\ cur' = 0
    /\ sink_pc' = "idle"
    /\ UNCHANGED <<connVars, poolVars, nevents, submitted, polled, next_ret,
                   acquired, taskVars, srcVars, harnessVars, pureVars>>

\* mutant: on_signal also reports backpressure after its poll
OnSignalCloses ==
    /\ "sink" \in alive
    /\ sink_pc = "idle"
    /\ RefreshClients
    /\ cb_log' = IF Len(clients_chan) > 0 THEN Append(cb_log, "close") ELSE cb_log
    /\ UNCHANGED <<max_concurrency, attempts, cap_max, counter, cb_closed, sinkVars,
                   taskVars, srcVars, harnessVars, pureVars>>

\* on_signal: the refresh poll alone
OnSignal ==
    /\ "sink" \in alive
    /\ sink_pc = "idle"
    /\ RefreshClients
    /\ UNCHANGED <<max_concurrency, attempts, capVars, sinkVars, taskVars, srcVars,
                   harnessVars, pureVars>>

\* ---------------------------------------------------- the spawned task
\* Receivers of the delivery channel: HttpClient.response_rx and the
\* source's rx. Senders: HttpClient.response_tx, the sink's response_tx and
\* the clone each running task holds.
RxAlive == alive \cap {"connector", "source"} # {}
TxAlive ==
    \/ alive \cap {"connector", "sink"} # {}
    \/ \E e \in Events : task[e].st \in {"invoke", "send"}

\* a reply: `request` is the request metadata it carries
Unit(e, i) == [request |-> e, kind |-> "unit", value |-> i]

\* lines 305-321: payload { "status": 415 }, metadata { "request": meta },
\* stream DEFAULT_STREAM_ID, port None
Status415(e) ==
    [request |-> e, kind |-> "status", value |-> 415,
     stream |-> "DEFAULT_STREAM_ID", port |-> "None"]

\* mutant: a decode failure is only logged, like a transport failure
RepliesSilentCodecError(e, outcome) ==
    CASE outcome.kind = "valid" -> [i \in 1..outcome.units |-> Unit(e, i)]
      [] outcome.kind = "codec_error" -> <<>>
      [] outcome.kind = "error" -> <<>>

\* mutant: a transport failure is answered like a decode failure
RepliesErrorReply(e, outcome) ==
    CASE outcome.kind = "valid" -> [i \in 1..outcome.units |-> Unit(e, i)]
      [] outcome.kind = "codec_error" -> <<Status415(e)>>
      [] outcome.kind = "error" -> <<Status415(e)>>

\* mutant: the last decoded unit is not sent
RepliesDropLast(e, outcome) ==
    CASE outcome.kind = "valid" -> [i \in 1..(outcome.units - 1) |-> Unit(e, i)]
      [] outcome.kind = "codec_error" -> <<Status415(e)>>
      [] outcome.kind = "error" -> <<>>

\* what the task has to send after HttpResponseMeta::invoke, given the
\* request_meta it was spawned with
Replies(e, outcome) ==
    CASE outcome.kind = "valid" -> [i \in 1..outcome.units |-> Unit(e, i)]
      [] outcome.kind = "codec_error" -> <<Status415(e)>>
      [] outcome.kind = "error" -> <<>>

Outcomes ==
    [kind : {"valid"}, units : 0..MaxUnits]
        \cup {[kind |-> "codec_error", units |-> 0], [kind |-> "error", units |-> 0]}

\* lines 286-296, 324-330: the exchange ends
TaskInvoke(e, outcome) ==
    /\ task[e].st = "invoke"
    /\ LET out == Replies(task[e].meta, outcome)
       IN task' = [task EXCEPT ![e].out = out,
                               ![e].outcome = outcome,
                               ![e].st = IF out = <<>> THEN "ended" ELSE "send"]
    /\ UNCHANGED <<connVars, poolVars, capVars, sinkVars, srcVars, harnessVars, pureVars>>

\* mutant: try_send, the reply is dropped when the channel is full
TaskSendDropOnFull(e) ==
    /\ task[e].st = "send"
    /\ RxAlive
    /\ response_chan' = IF Len(response_chan) < ChannelCap
                        THEN Append(response_chan, Head(task[e].out))
                        ELSE response_chan
    /\ task' = [task EXCEPT ![e].out = Tail(@),
                            ![e].st = IF Tail(task[e].out) = <<>> THEN "ended" ELSE "send"]
    /\ UNCHANGED <<connVars, poolVars, capVars, sinkVars, alive, received,
                   last_pull, harnessVars, pureVars>>

\* mutant: on a full channel the reply takes the place of the newest one
TaskSendOverwriteOnFull(e) ==
    /\ task[e].st = "send"
    /\ RxAlive
    /\ response_chan' = IF Len(response_chan) < ChannelCap
                        THEN Append(response_chan, Head(task[e].out))
                        ELSE [response_chan EXCEPT ![ChannelCap] = Head(task[e].out)]
    /\ task' = [task EXCEPT ![e].out = Tail(@),
                            ![e].st = IF Tail(task[e].out) = <<>> THEN "ended" ELSE "send"]
    /\ UNCHANGED <<connVars, poolVars, capVars, sinkVars, alive, received,
                   last_pull, harnessVars, pureVars>>

\* lines 299, 304-322: response_tx.send(..).await, suspended while full
TaskSend(e) ==
    /\ task[e].st = "send"
    /\ RxAlive
    /\ Len(response_chan) < ChannelCap
    /\ response_chan' = Append(response_chan, Head(task[e].out))
    /\ task' = [task EXCEPT ![e].out = Tail(@),
                            ![e].st = IF Tail(task[e].out) = <<>> THEN "ended" ELSE "send"]
    /\ UNCHANGED <<connVars, poolVars, capVars, sinkVars, alive, received,
                   last_pull, harnessVars, pureVars>>

\* lines 299, 322: send fails on a closed channel and `?` ends the task
TaskSendFail(e) ==
    /\ task[e].st = "send"
    /\ ~RxAlive
    /\ task' = [task EXCEPT ![e].out = <<>>, ![e].st = "ended"]
    /\ UNCHANGED <<connVars, poolVars, capVars, sinkVars, srcVars, harnessVars, pureVars>>

\* mutant: a closed and empty channel is reported like a timeout
PullDataClosedAsTimeout ==
    /\ "source" \in alive
    /\ IF Len(response_chan) > 0
       THEN /\ received' = [received EXCEPT ![Head(response_chan).request] =
                                             Append(@, Head(response_chan))]
            /\ response_chan' = Tail(response_chan)
            /\ last_pull' = "Ok(reply)"
       ELSE /\ last_pull' = "Err(timeout)"
            /\ UNCHANGED <<response_chan, received>>
    /\ UNCHANGED <<connVars, poolVars, capVars, sinkVars, taskVars, alive,
                   harnessVars, pureVars>>

\* ------------------------------------------------------------ the source
\* lines 155-160: recv() under the 100 ms timeout. A reply is handed on as
\* Ok; on a closed and empty channel recv() fails and the error is returned;
\* on an open and empty one the timeout elapses and `?` returns its error
PullData ==
    /\ "source" \in alive
    /\ IF Len(response_chan) > 0
       THEN /\ received' = [received EXCEPT ![Head(response_chan).request] =
                                             Append(@, Head(response_chan))]
            /\ response_chan' = Tail(response_chan)
            /\ last_pull' = "Ok(reply)"
       ELSE /\ last_pull' = IF TxAlive THEN "Err(timeout)" ELSE "Err(closed)"
            /\ UNCHANGED <<response_chan, received>>
    /\ UNCHANGED <<connVars, poolVars, capVars, sinkVars, taskVars, alive,
                   harnessVars, pureVars>>

\* the connector, the source or the sink is stopped and dropped (the sink
\* between two calls); spawned tasks are detached and run on
Drop(x) ==
    /\ x \in alive
    /\ x = "sink" => sink_pc = "idle"
    /\ alive' = alive \ {x}
    /\ UNCHANGED <<connVars, poolVars, capVars, sinkVars, taskVars, response_chan,
                   received, last_pull, harnessVars, pureVars>>

Next ==
    \/ Connect
    \/ OnEventRefresh
    \/ OnEventIncFor
    \/ OnEventNoClient
    \/ OnEventError
    \/ OnEventSpawn
    \/ OnEventReturn
    \/ OnSignal
    \/ \E e \in Events : \E o \in Outcomes : TaskInvoke(e, o)
    \/ \E e \in Events : TaskSend(e)
    \/ PullData

\* the connector while connector, source and sink are all running
Spec == Init /\ [][Next]_vars

\* ------------------------------------------- the connector shutting down
\* max_concurrency = 2 and one connect(); connector, source and sink may be
\* dropped at any time, in any order, while spawned tasks run on.
InitChan ==
    /\ max_concurrency = ChanConcurrency
    /\ cap_max = SinkNew(max_concurrency)
    /\ nevents = MaxEvents
    /\ holder = [c \in Callers |-> "unused"]
    /\ InitCommon
    /\ InitPure

ConnectOnce == attempts = 0 /\ Connect

NextChan ==
    \/ ConnectOnce
    \/ OnEventRefresh
    \/ OnEventIncFor
    \/ OnEventNoClient
    \/ OnEventError
    \/ OnEventSpawn
    \/ OnEventReturn
    \/ \E e \in Events : \E o \in Outcomes : TaskInvoke(e, o)
    \/ \E e \in Events : TaskSend(e)
    \/ \E e \in Events : TaskSendFail(e)
    \/ PullData
    \/ \E x \in {"connector", "source", "sink"} : Drop(x)

ChanSpec == InitChan /\ [][NextChan]_vars


\* ------------------------------------------ pool lists that queue up
\* The refresh channel has room for more than one list (bounded(128), line
\* 77), so connect() can deliver a second list before the first is polled.
InitRefresh ==
    /\ max_concurrency = RefreshConcurrency
    /\ cap_max = SinkNew(max_concurrency)
    /\ nevents = MaxEvents
    /\ holder = [c \in Callers |-> "unused"]
    /\ InitCommon
    /\ InitPure

ConnectQueued == ConnectWithCap(RefreshChanCap)

NextRefresh ==
    \/ ConnectQueued
    \/ OnEventRefresh
    \/ OnEventIncFor
    \/ OnEventNoClient
    \/ OnEventError
    \/ OnEventSpawn
    \/ OnEventReturn
    \/ OnSignal
    \/ \E e \in Events : \E o \in Outcomes : TaskInvoke(e, o)
    \/ \E e \in Events : TaskSend(e)
    \/ PullData

RefreshSpec == InitRefresh /\ [][NextRefresh]_vars

\* ------------------------------------------- the end-to-end scenario
\* max_concurrency = 2, connect() first, then 5 events in succession; every
\* exchange succeeds with one decoded unit and the source keeps pulling.
InitE2E ==
    /\ max_concurrency = E2EConcurrency
    /\ cap_max = SinkNew(max_concurrency)
    /\ nevents = E2EEvents
    /\ holder = [c \in Callers |-> "unused"]
    /\ InitCommon
    /\ InitPure

E2EConnect == attempts = 0 /\ Connect

E2ESubmit == attempts > 0 /\ OnEventRefresh

E2EExchange(e) == TaskInvoke(e, [kind |-> "valid", units |-> 1])

NextE2E ==
    \/ E2EConnect
    \/ E2ESubmit
    \/ OnEventIncFor
    \/ OnEventSpawn
    \/ OnEventReturn
    \/ \E e \in Events : E2EExchange(e)
    \/ \E e \in Events : TaskSend(e)
    \/ PullData

\* the executor runs every task that can run, the pipeline hands over its
\* events and the source manager keeps calling pull_data
E2ESpec ==
    /\ InitE2E
    /\ [][NextE2E]_vars
    /\ WF_vars(E2EConnect)
    /\ WF_vars(E2ESubmit)
    /\ WF_vars(OnEventIncFor)
    /\ WF_vars(OnEventSpawn)
    /\ WF_vars(OnEventReturn)
    /\ \A e \in 1..E2EEvents : WF_vars(E2EExchange(e))
    /\ \A e \in 1..E2EEvents : WF_vars(TaskSend(e))
    /\ WF_vars(PullData)

\* ------------------------------- the admission controller on its own
\* Callers take permits with inc_for and give them back by dropping the
\* guard, in any order.
InitCap ==
    /\ max_concurrency \in 1..MaxConcurrency
    /\ cap_max = SinkNew(max_concurrency)
    /\ nevents = 0
    /\ holder = [c \in Callers |-> "idle"]
    /\ InitCommon
    /\ InitPure

CallerIncFor(c) ==
    /\ holder[c] \in {"idle", "waiting"}
    /\ holder[c] = "idle" => calls < MaxCalls
    /\ IncFor(holder[c] = "waiting")
    /\ holder' = [holder EXCEPT ![c] = IF Admits THEN "holding" ELSE "waiting"]
    /\ calls' = IF holder[c] = "idle" THEN calls + 1 ELSE calls
    /\ UNCHANGED <<connVars, poolVars, sinkVars, taskVars, srcVars, pureVars>>

CallerDrop(c) ==
    /\ holder[c] = "holding"
    /\ DropGuard
    /\ holder' = [holder EXCEPT ![c] = "idle"]
    /\ UNCHANGED <<connVars, poolVars, sinkVars, taskVars, srcVars, calls, pureVars>>

NextCap ==
    \/ \E c \in Callers : CallerIncFor(c)
    \/ \E c \in Callers : CallerDrop(c)

\* a guard is scoped, so it is dropped; a suspended inc_for is resumed
\* when a slot is free
CapSpec ==
    /\ InitCap
    /\ [][NextCap]_vars
    /\ \A c \in Callers : WF_vars(CallerDrop(c))
    /\ \A c \in Callers : WF_vars(CallerIncFor(c))

\* --------------------------------------------------- the pool on its own
\* SurfClients::new over a list of any length, then next() and swaps.
PoolList(attempt, m) == NewClients(attempt, m + 1)

InitPool ==
    /\ max_concurrency = 1
    /\ cap_max = SinkNew(max_concurrency)
    /\ nevents = 0
    /\ holder = [c \in Callers |-> "unused"]
    /\ InitCommon
    /\ InitPure

PoolNext ==
    /\ calls < MaxNextCalls
    /\ calls' = calls + 1
    /\ idx' = SurfClientsIdx(clients, idx)
    /\ next_log' = next_log \o SurfClientsNext(clients, idx)
    /\ UNCHANGED <<connVars, clients, capVars, sinkVars, taskVars, srcVars, holder,
                   pureVars>>

PoolSwap(m) ==
    /\ attempts < MaxConnects
    /\ attempts' = attempts + 1
    /\ clients' = PoolList(attempts + 1, m)
    /\ idx' = 0
    /\ next_log' = <<>>
    /\ UNCHANGED <<max_concurrency, clients_chan, capVars, sinkVars, taskVars,
                   srcVars, harnessVars, pureVars>>

NextPool ==
    \/ PoolNext
    \/ \E m \in 0..MaxPool : PoolSwap(m)

PoolSpec == InitPool /\ [][NextPool]_vars


\* ------------------------------------------------- auth.rs: the header
\* A string is the sequence of its characters; base64::encode works on the
\* bytes of the string and returns the characters of the encoding.
Ascii ==
    "a" :> 97 @@ "b" :> 98 @@ "c" :> 99 @@ "x" :> 120 @@ "y" :> 121 @@ "z"
        :> 122 @@ "l" :> 108 @@ "i" :> 105 @@ "e" :> 101 @@ "s" :> 115 @@ "r"
        :> 114 @@ "t" :> 116 @@ ":" :> 58

\* the alphabet of base64::STANDARD, and '=' to pad
Base64Table ==
    <<"A", "B", "C", "D", "E", "F", "G", "H", "I", "J", "K", "L", "M", "N", "O", "P",
      "Q", "R", "S", "T", "U", "V", "W", "X", "Y", "Z", "a", "b", "c", "d", "e", "f",
      "g", "h", "i", "j", "k", "l", "m", "n", "o", "p", "q", "r", "s", "t", "u", "v",
      "w", "x", "y", "z", "0", "1", "2", "3", "4", "5", "6", "7", "8", "9", "+", "/">>

Base64Char(n) == Base64Table[n + 1]

Bytes(str) == [i \in 1..Len(str) |-> Ascii[str[i]]]

\* base64::encode / base64::encode_config_buf(.., base64::STANDARD, ..):
\* three bytes give four characters; one or two bytes left over give two or
\* three characters and padding
RECURSIVE Base64Encode(_)
Base64Encode(bytes) ==
    IF Len(bytes) = 0 THEN <<>>
    ELSE IF Len(bytes) = 1
    THEN <<Base64Char(bytes[1] \div 4), Base64Char((bytes[1] % 4) * 16), "=", "=">>
    ELSE IF Len(bytes) = 2
    THEN LET n == bytes[1] * 256 + bytes[2]
         IN <<Base64Char(n \div 1024), Base64Char((n \div 16) % 64),
              Base64Char((n % 16) * 4), "=">>
    ELSE LET n == bytes[1] * 65536 + bytes[2] * 256 + bytes[3]
         IN <<Base64Char(n \div 262144), Base64Char((n \div 4096) % 64),
              Base64Char((n \div 64) % 64), Base64Char(n % 64)>>
                \o Base64Encode(SubSeq(bytes, 4, Len(bytes)))

\* mutant: id, ':' and key are joined and encoded once
ApiKeyHeaderJoined(id, api_key) ==
    <<"A", "p", "i", "K", "e", "y", " ">> \o Base64Encode(Bytes(id \o <<":">> \o api_key))

\* lines 49-55: three encode_config_buf calls into the same buffer
ApiKeyHeader(id, api_key) ==
    <<"A", "p", "i", "K", "e", "y", " ">>
        \o Base64Encode(Bytes(id))
        \o Base64Encode(Bytes(<<":">>))
        \o Base64Encode(Bytes(api_key))

\* mutant: username, ':' and password are encoded one by one
BasicHeaderThreeParts(username, password) ==
    <<"B", "a", "s", "i", "c", " ">>
        \o Base64Encode(Bytes(username))
        \o Base64Encode(Bytes(<<":">>))
        \o Base64Encode(Bytes(password))

\* lines 41-47: base64::encode(&format!("{}:{}", username, password))
BasicHeader(username, password) ==
    <<"B", "a", "s", "i", "c", " ">> \o Base64Encode(Bytes(username \o <<":">> \o password))

\* line 48: format!("Bearer {}", &token)
BearerHeader(token) == <<"B", "e", "a", "r", "e", "r", " ">> \o token

\* gouth::Token::new() and header_value(): an external token service that
\* answers with a header or fails
GcpOutcomes ==
    {[ok |-> FALSE, header |-> <<>>], [ok |-> TRUE, header |-> <<"B", "e", "a", "r", "e", "r", " ">> \o <<"t">>]}

Some(x) == <<x>>
None == <<>>

\* mutant: Auth::None gives an empty header
AsHeaderValueEmptyHeader(auth, gcp) ==
    CASE auth.kind = "gcp" ->
            IF gcp.ok THEN [ok |-> TRUE, value |-> Some(gcp.header)]
                      ELSE [ok |-> FALSE, value |-> None]
      [] auth.kind = "basic" ->
            [ok |-> TRUE, value |-> Some(BasicHeader(auth.username, auth.password))]
      [] auth.kind = "bearer" ->
            [ok |-> TRUE, value |-> Some(BearerHeader(auth.token))]
      [] auth.kind = "elastic_api_key" ->
            [ok |-> TRUE, value |-> Some(ApiKeyHeader(auth.id, auth.api_key))]
      [] auth.kind = "none" -> [ok |-> TRUE, value |-> Some(<<>>)]

\* lines 35-58: Auth::as_header_value, Result<Option<String>>
AsHeaderValue(auth, gcp) ==
    CASE auth.kind = "gcp" ->
            IF gcp.ok THEN [ok |-> TRUE, value |-> Some(gcp.header)]
                      ELSE [ok |-> FALSE, value |-> None]
      [] auth.kind = "basic" ->
            [ok |-> TRUE, value |-> Some(BasicHeader(auth.username, auth.password))]
      [] auth.kind = "bearer" ->
            [ok |-> TRUE, value |-> Some(BearerHeader(auth.token))]
      [] auth.kind = "elastic_api_key" ->
            [ok |-> TRUE, value |-> Some(ApiKeyHeader(auth.id, auth.api_key))]
      [] auth.kind = "none" -> [ok |-> TRUE, value |-> None]

\* lines 61-65: impl Default for Auth
AuthDefault == [kind |-> "none"]

\* the strings credentials are drawn from
AuthAlphabet == {"a", ":"}
StrAbc == <<"a", "b", "c">>
StrXyz == <<"x", "y", "z">>
StrAlice == <<"a", "l", "i", "c", "e">>
StrSecret == <<"s", "e", "c", "r", "e", "t">>
AuthStrings ==
    UNION {[1..k -> AuthAlphabet] : k \in 0..MaxAuthLen}
        \cup {StrAbc, StrXyz, StrAlice, StrSecret}

\* lines 20-31: enum Auth
Auths ==
    {[kind |-> "basic", username |-> u, password |-> p] : u, p \in AuthStrings}
        \cup {[kind |-> "bearer", token |-> t] : t \in AuthStrings}
        \cup {[kind |-> "elastic_api_key", id |-> i, api_key |-> k] :
                 i, k \in AuthStrings}
        \cup {[kind |-> "gcp"], [kind |-> "none"]}

InitAuth ==
    /\ max_concurrency = 1
    /\ cap_max = SinkNew(max_concurrency)
    /\ nevents = 0
    /\ holder = [c \in Callers |-> "unused"]
    /\ InitCommon
    /\ arg \in Auths
    /\ ret = <<>>

\* one call of as_header_value on the strategy
AuthCall(gcp) ==
    /\ Len(ret) < MaxAuthCalls
    /\ ret' = Append(ret, AsHeaderValue(arg, gcp))
    /\ UNCHANGED <<connVars, poolVars, capVars, sinkVars, taskVars, srcVars,
                   harnessVars, arg>>

NextAuth == \E gcp \in GcpOutcomes : AuthCall(gcp)

AuthSpec == InitAuth /\ [][NextAuth]_vars


\* ------------------------------------- building connector and metadata
\* ConnectorConfig as from_config reads it: the config block (absent, not
\* accepted by Config::new, or valid with its concurrency), the codec named
\* (if any) and the codec_map entry of the block.
KnownCodecs == {"json", "string", "msgpack"}
CodecNames == KnownCodecs \cup {"snot"}

ConfigBlocks ==
    {[state |-> "absent", concurrency |-> 0, codec_map |-> "absent"]}
        \cup [state : {"invalid", "valid"}, concurrency : 1..MaxConcurrency,
              codec_map : {"absent", "valid", "invalid"}]

ConnectorConfigs == [config : ConfigBlocks, codec : {"none"} \cup CodecNames]

Ok(v) == [ok |-> TRUE, error |-> "none", value |-> Some(v)]
Err(e) == [ok |-> FALSE, error |-> e, value |-> None]

\* mutant: without a config block the connector is built on defaults
FromConfigOnDefaults(cc) ==
    LET codec_name == IF cc.codec # "none" THEN cc.codec ELSE "json"
    IN IF cc.config.state = "invalid" THEN Err("InvalidConfig")
       ELSE IF cc.config.codec_map = "invalid" THEN Err("InvalidCodecMap")
       ELSE Ok([max_concurrency |-> IF cc.config.state = "absent"
                                     THEN 1 ELSE cc.config.concurrency,
                response_chan |-> <<>>,
                clients_chan |-> <<>>,
                codec_name |-> codec_name])

\* lines 56-91: Builder::from_config
FromConfig(cc) ==
    LET codec_name == IF cc.codec # "none" THEN cc.codec ELSE "json"
    IN IF cc.config.state = "absent" THEN Err("MissingConfiguration")
       ELSE IF cc.config.state = "invalid" THEN Err("InvalidConfig")
       ELSE IF cc.config.codec_map = "invalid" THEN Err("InvalidCodecMap")
       ELSE Ok([max_concurrency |-> cc.config.concurrency,
                response_chan |-> <<>>,
                clients_chan |-> <<>>,
                codec_name |-> codec_name])

\* mutant: the default name wins over the configured codec
MetaFromConfigDefaultFirst(cc, default_codec) ==
    IF default_codec \in KnownCodecs THEN Ok([codec |-> default_codec])
    ELSE IF cc.codec \in KnownCodecs THEN Ok([codec |-> cc.codec])
    ELSE Err("UnknownCodec")

\* HttpRequestMeta::from_config(&connector_config, default_codec), as the
\* test at lines 384-424 and spec.md describe it (meta.rs is not at hand)
MetaFromConfig(cc, default_codec) ==
    LET name == IF cc.codec # "none" THEN cc.codec ELSE default_codec
    IN IF name \in KnownCodecs THEN Ok([codec |-> name]) ELSE Err("UnknownCodec")

InitBuild ==
    /\ max_concurrency = 1
    /\ cap_max = SinkNew(max_concurrency)
    /\ nevents = 0
    /\ holder = [c \in Callers |-> "unused"]
    /\ InitCommon
    /\ arg \in ConnectorConfigs
    /\ ret = <<>>

\* builder.from_config(id, &config)
BuildConnector ==
    /\ Len(ret) < MaxBuildCalls
    /\ ret' = Append(ret, [op |-> "from_config", default_codec |-> "none",
                           res |-> FromConfig(arg)])
    /\ UNCHANGED <<connVars, poolVars, capVars, sinkVars, taskVars, srcVars,
                   harnessVars, arg>>

\* HttpRequestMeta::from_config(&config, default_codec)
BuildMeta(default_codec) ==
    /\ Len(ret) < MaxBuildCalls
    /\ ret' = Append(ret, [op |-> "meta", default_codec |-> default_codec,
                           res |-> MetaFromConfig(arg, default_codec)])
    /\ UNCHANGED <<connVars, poolVars, capVars, sinkVars, taskVars, srcVars,
                   harnessVars, arg>>

NextBuild ==
    \/ BuildConnector
    \/ \E d \in CodecNames : BuildMeta(d)

BuildSpec == InitBuild /\ [][NextBuild]_vars

\* ================================================================ claims
RECURSIVE SumTo(_, _)
SumTo(f, n) == IF n = 0 THEN 0 ELSE f[n] + SumTo(f, n - 1)

PermitLive(e) == acquired[e] - released[e]
LivePermits == SumTo([e \in Events |-> PermitLive(e)], nevents)
InFlight == {e \in Events : task[e].st \in {"invoke", "send"}}
Holding == {c \in Callers : holder[c] = "holding"}
Waiting == {c \in Callers : holder[c] = "waiting"}
Quiescent ==
    /\ submitted = nevents
    /\ sink_pc = "idle"
    /\ InFlight = {}

\* C1: for every max_concurrency = N >= 1 and every sequence of inc_for calls
\* and guard drops, the permits acquired and not yet released never exceed N
\* (and the controller's counter is their number).
C1_PermitsBounded ==
    /\ Cardinality(Holding) <= max_concurrency
    /\ counter = Cardinality(Holding)

C1_Witness ==
    /\ Cardinality(Holding) = max_concurrency
    /\ Waiting # {}

\* C2 (as claimed): the spawned tasks that have started and not yet ended
\* never exceed max_concurrency.
C2_TasksInFlightBounded == Cardinality(InFlight) <= max_concurrency

\* C3 (as claimed): the permit of an event whose task was spawned is live
\* for as long as the task runs.
C3_PermitHeldWhileTaskRuns ==
    \A e \in Events : e \in InFlight => PermitLive(e) = 1

\* C4: every permit on_event acquires is released exactly once, whatever
\* path the event takes; the live-permit count is never negative, and it is
\* 0 once every event is handled and every task has ended.
C4_PermitReleasedOnce ==
    /\ \A e \in Events :
          /\ released[e] <= acquired[e]
          /\ acquired[e] <= 1
          /\ result[e] # "pending" => acquired[e] = 1 /\ released[e] = 1
    /\ counter = LivePermits
    /\ counter >= 0
    /\ Quiescent => counter = 0

C4_Witness ==
    /\ Quiescent
    /\ \E e \in Events : result[e] = "FAIL"
    /\ \E e \in Events : task[e].st = "ended" /\ result[e] = "NONE"

\* C5: inc_for called while max_concurrency permits are live suspends the
\* caller: no permit is granted and a close has gone out on reply_tx; a
\* suspended caller leaves inc_for only with a permit, and only when a slot
\* is free (it is never turned away).
C5_SaturationSuspends ==
    [][\A c \in Callers :
          /\ (holder[c] = "idle" /\ holder'[c] # "idle"
                  /\ Cardinality(Holding) = max_concurrency)
                => /\ holder'[c] = "waiting"
                   /\ counter' = counter
                   /\ cb_log' # <<>>
                   /\ cb_log'[Len(cb_log')] = "close"
          /\ (holder[c] = "waiting" /\ holder'[c] # "waiting")
                => /\ holder'[c] = "holding"
                   /\ Cardinality(Holding) < max_concurrency
                   /\ counter' = counter + 1]_vars

C5_Witness ==
    /\ Waiting # {}
    /\ Cardinality(Holding) = max_concurrency
    /\ cb_log # <<>>
    /\ cb_log[Len(cb_log)] = "close"

LastSignal == IF cb_log = <<>> THEN "none" ELSE cb_log[Len(cb_log)]

\* C6: every close is followed by a restore once a permit is released;
\* close and restore alternate, starting with close; when no permit is
\* live and no caller waits, the last signal is not a close.
C6_CloseThenRestore ==
    /\ (LastSignal = "close") ~> (LastSignal = "restore")
    /\ [](\A i \in 1..Len(cb_log) :
             cb_log[i] = IF i % 2 = 1 THEN "close" ELSE "restore")
    /\ []((Holding = {} /\ Waiting = {}) => LastSignal # "close")

C6_Witness ==
    /\ Len(cb_log) >= 4
    /\ LastSignal = "restore"
    /\ Holding = {}
    /\ Waiting = {}

\* C7: in the end-to-end scenario every event is dispatched and the source
\* ends up with exactly one reply for each of them, and never has more.
C7_AllDelivered ==
    /\ <>[](\A e \in 1..E2EEvents :
               result[e] = "NONE" /\ received[e] = <<Unit(e, 1)>>)
    /\ [](\A e \in 1..E2EEvents : Len(received[e]) <= 1)

C7_Witness ==
    /\ nevents = E2EEvents
    /\ max_concurrency = E2EConcurrency
    /\ \A e \in Events : result[e] = "NONE" /\ received[e] = <<Unit(e, 1)>>

\* C8: on_event against an empty pool returns SinkReply::FAIL, spawns no
\* task and no reply for the event is ever sent or received.
C8_EmptyPoolFails ==
    /\ [][(sink_pc = "dispatch" /\ sink_pc' # "dispatch" /\ clients = <<>>)
             => /\ pend' = "FAIL"
                /\ next_ret'[cur] = "absent"
                /\ task' = task
                /\ response_chan' = response_chan]_vars
    /\ [][(sink_pc = "return" /\ sink_pc' # "return") => result'[cur] = pend]_vars
    /\ [](\A e \in Events :
             next_ret[e] = "absent"
                => /\ result[e] \in {"pending", "FAIL"}
                   /\ task[e] = NoTask
                   /\ received[e] = <<>>
                   /\ \A i \in 1..Len(response_chan) : response_chan[i].request # e)

C8_Witness ==
    \E e \in Events : next_ret[e] = "absent" /\ result[e] = "FAIL"

\* C9 (as claimed): after an on_event that failed on the empty pool, an
\* on_event whose refresh poll receives the list connect() delivered spawns
\* a task and returns SinkReply::NONE (the request itself being buildable).
C9_UsableAfterRepopulation ==
    \A e \in Events :
        (e > 1 /\ result[e - 1] = "FAIL" /\ polled[e]
               /\ result[e] \notin {"pending", "ERR"})
            => result[e] = "NONE" /\ task[e].st # "none"

\* C10: with no swap in between, the k-th next() (from 0) on a pool of
\* M >= 1 clients returns list[k mod M]: the first M calls return each
\* client once in insertion order and the (M+1)-th the first again.
C10_RoundRobin ==
    LET M == Len(clients) IN
    M >= 1 =>
        /\ Len(next_log) = idx
        /\ \A k \in 0..(Len(next_log) - 1) : next_log[k + 1] = clients[(k % M) + 1]
        /\ Len(next_log) >= M => SubSeq(next_log, 1, M) = clients
        /\ Len(next_log) > M => next_log[M + 1] = clients[1]
        /\ \A i, j \in 1..M : i # j => clients[i] # clients[j]

C10_Witness ==
    /\ Len(clients) >= 2
    /\ Len(next_log) = 2 * Len(clients) + 1

\* the replies of request e that went into the delivery channel, in order
Sent(e) == received[e] \o SelectSeq(response_chan, LAMBDA r : r.request = e)

Ended(e, kind) == task[e].st = "ended" /\ task[e].outcome.kind = kind

\* C11 as stated: a task whose response failed to decode has, when it ends,
\* sent exactly one reply (never zero, never more): status 415, the request
\* metadata under "request", default stream, no port.
C11_DecodeFailureOneReply ==
    \A e \in Events : Ended(e, "codec_error") => Sent(e) = <<Status415(e)>>

\* C11 amended: the one reply is sent provided a receiver of the delivery
\* channel is alive; with every receiver dropped the send fails and the task
\* ends having sent none. Never more than one, and always the 415 reply.
C11_DecodeFailureAtMostOneReply ==
    \A e \in Events :
        /\ (task[e].st = "send" /\ task[e].outcome.kind = "codec_error")
               => (task[e].out = <<Status415(e)>> /\ Sent(e) = <<>>)
        /\ Ended(e, "codec_error")
               => /\ Sent(e) \in {<<>>, <<Status415(e)>>}
                  /\ RxAlive => Sent(e) = <<Status415(e)>>
                  /\ \A i \in 1..Len(Sent(e)) :
                         /\ Sent(e)[i].value = 415
                         /\ Sent(e)[i].request = e
                         /\ Sent(e)[i].stream = "DEFAULT_STREAM_ID"
                         /\ Sent(e)[i].port = "None"

C11_Witness ==
    \E e \in Events : Ended(e, "codec_error") /\ received[e] = <<Status415(e)>>

\* C12: a task whose exchange fails at the transport level sends no reply;
\* the failure changes neither a result on_event returned or will return,
\* nor the dispatcher (permits, pool, cursor, circuit breaker), nor another
\* task; a running sink goes on accepting events after it.
C12_TransportFailureSilent ==
    /\ [](\A e \in Events :
             task[e].outcome.kind = "error"
                => /\ task[e].st = "ended"
                   /\ task[e].out = <<>>
                   /\ Sent(e) = <<>>
                   /\ result[e] \in {"pending", "NONE"}
                   /\ ("sink" \in alive /\ sink_pc = "idle" /\ submitted < nevents)
                          => ENABLED OnEventRefresh)
    /\ [][\A e \in Events :
             (task[e].outcome.kind # "error" /\ task'[e].outcome.kind = "error")
                => /\ UNCHANGED <<connVars, poolVars, capVars, sinkVars, srcVars>>
                   /\ \A f \in Events \ {e} : task'[f] = task[f]]_vars

C12_Witness ==
    \E e, f \in Events :
        /\ e < f
        /\ Ended(e, "error")
        /\ result[e] = "NONE"
        /\ result[f] = "NONE"
        /\ task[f].st # "none"

\* the replies of the k units a response decoded into, in order
UnitReplies(e, k) == [i \in 1..k |-> Unit(e, i)]

IsPrefix(s, t) == Len(s) <= Len(t) /\ \A i \in 1..Len(s) : s[i] = t[i]

PullErrors == {"Err(timeout)", "Err(closed)"}

\* C14 as stated: a pull on a delivery channel that is open and stays empty
\* for the timeout returns a timeout indication that is not an error, and
\* consumes nothing.
C14_TimeoutIsNotAnError ==
    [][(response_chan = <<>> /\ TxAlive /\ last_pull' # last_pull)
          => /\ last_pull' \notin PullErrors
             /\ UNCHANGED <<response_chan, received>>]_vars

\* C15: a pull on a delivery channel that is closed (every sender dropped)
\* and empty returns the hard failure: never the timeout, never a reply,
\* and nothing is consumed.
C15_ClosedChannelFails ==
    [][(response_chan = <<>> /\ ~TxAlive /\ last_pull' # last_pull)
          => /\ last_pull' = "Err(closed)"
             /\ UNCHANGED <<response_chan, received>>]_vars

C15_Witness ==
    /\ last_pull = "Err(closed)"
    /\ ~TxAlive
    /\ \E e \in Events : received[e] # <<>>

InChannel(e) == \E i \in 1..Len(response_chan) : response_chan[i].request = e

\* C16: no reply is dropped because the delivery channel is full. A task
\* that has a reply to send while the channel holds its capacity stays
\* suspended with that reply; a sender that moves on has put its reply at
\* the end of the channel; and, the source pulling on and the channel staying
\* open, every reply sent is received, exactly once.
C16_NoReplyDropped ==
    /\ [](Len(response_chan) <= ChannelCap)
    /\ [][\A e \in Events :
             task[e].st = "send"
                => \/ task'[e] = task[e]
                   \/ /\ Len(response_chan) < ChannelCap
                      /\ response_chan' = Append(response_chan, Head(task[e].out))]_vars
    /\ \A e \in 1..E2EEvents : InChannel(e) ~> (received[e] = <<Unit(e, 1)>>)
    /\ [](\A e \in 1..E2EEvents :
             /\ Len(Sent(e)) <= 1
             /\ task[e].st = "ended" => Sent(e) = <<Unit(e, 1)>>)

C16_Witness ==
    /\ Len(response_chan) = ChannelCap
    /\ \E e \in Events : task[e].st = "send"
    /\ \E e \in Events : received[e] # <<>>

\* C17: every reply the source receives carries the request metadata of the
\* event whose task produced it, however dispatches, task steps and pulls
\* interleave: a task holds the metadata of its own event, every reply it
\* has to send and every reply it puts on the channel carries it, and
\* pull_data hands on the head of the channel as it is.
C17_RepliesCorrelated ==
    /\ [](\A e \in Events :
             task[e].st # "none"
                => /\ task[e].meta = e
                   /\ \A i \in 1..Len(task[e].out) : task[e].out[i].request = e)
    /\ [][\A e \in Events :
             (task[e].st = "send" /\ task'[e] # task[e]
                     /\ response_chan' # response_chan)
                => response_chan' = Append(response_chan, Head(task[e].out))
                   /\ response_chan'[Len(response_chan')].request = e]_vars
    /\ [][\A e \in Events :
             received'[e] # received[e]
                => /\ received'[e] = Append(received[e], Head(response_chan))
                   /\ Head(response_chan).request = e
                   /\ response_chan' = Tail(response_chan)]_vars

\* the reply of the second event is received while the task of the first
\* is still running
C17_Witness ==
    \E e, f \in Events :
        /\ e < f
        /\ task[e].st \in {"invoke", "send"}
        /\ received[e] = <<>>
        /\ received[f] # <<>>
        /\ received[f][1].request = f

\* the lists connect() has delivered so far
Delivered == {NewClients(g, max_concurrency) : g \in 1..attempts}

\* C18: the pool is replaced as a whole: it is at any time the empty list
\* it was built with or exactly one list connect() delivered, never a
\* mixture of two, and next() returns only clients of the current list.
C18_PoolIsOneDeliveredList ==
    /\ clients \in {<<>>} \cup Delivered
    /\ \A i, j \in 1..Len(clients) : clients[i].gen = clients[j].gen
    /\ \A i \in 1..Len(next_log) : \E j \in 1..Len(clients) : next_log[i] = clients[j]

\* the second delivered list is the pool, a task still runs on a client of
\* the first, and next() has been called on the second
C18_Witness ==
    /\ attempts >= 2
    /\ Len(clients) >= 2
    /\ clients = NewClients(2, max_concurrency)
    /\ next_log # <<>>
    /\ \E e \in Events : task[e].st # "none" /\ task[e].client[1].gen = 1

\* a step of refresh_clients that received a list and swapped the pool
SwapStep == Len(clients_chan') < Len(clients_chan)

\* C19: a pool swap neither cancels nor alters a spawned task: the step
\* that swaps leaves every task, with the client and request it captured,
\* the permit accounts and the set of tasks in flight as they were; no step
\* ever changes the client or the request of a spawned task; and a task in
\* flight can always take its next step, whatever the pool is now.
C19_SwapLeavesTasksAlone ==
    /\ [][SwapStep
             => /\ task' = task
                /\ InFlight' = InFlight
                /\ UNCHANGED <<counter, acquired, released, response_chan>>]_vars
    /\ [][\A e \in Events :
             task[e].st # "none"
                => /\ task'[e].client = task[e].client
                   /\ task'[e].meta = task[e].meta
                   /\ task'[e].st # "none"]_vars
    /\ [](\A e \in Events :
             /\ task[e].st = "invoke" => \A o \in Outcomes : ENABLED TaskInvoke(e, o)
             /\ (task[e].st = "send" /\ Len(response_chan) < ChannelCap)
                    => ENABLED TaskSend(e))

\* a task spawned on a client of the first list is in flight, or has ended
\* with its reply received, while the pool is the second list
C19_Witness ==
    /\ clients = NewClients(2, max_concurrency)
    /\ clients # <<>>
    /\ \E e \in Events : task[e].st = "invoke" /\ task[e].client[1].gen = 1
    /\ \E e \in Events :
           Ended(e, "valid") /\ task[e].client[1].gen = 1 /\ received[e] # <<>>

\* a swap made outside on_event, that is by on_signal
SignalSwapStep == SwapStep /\ submitted' = submitted

\* C20: on_signal does the refresh poll and nothing else: it takes no
\* permit, does not advance the cursor, spawns no task, sends nothing on the
\* delivery channel and no backpressure signal; it changes only the pool
\* (list and cursor of the new SurfClients) and the refresh channel.
C20_OnSignalOnlyRefreshes ==
    [][SignalSwapStep
          => /\ clients' = Head(clients_chan)
             /\ clients_chan' = Tail(clients_chan)
             /\ idx' = 0
             /\ UNCHANGED <<max_concurrency, attempts, capVars, sinkVars, taskVars,
                            srcVars>>]_vars

\* both delivered lists were picked up by on_signal (no on_event poll got
\* one), the second while a task was in flight
C20_Witness ==
    /\ clients = NewClients(2, max_concurrency)
    /\ clients # <<>>
    /\ submitted >= 1
    /\ \A e \in 1..submitted : ~polled[e]
    /\ \E e \in Events : task[e].st = "invoke" /\ task[e].client[1].gen = 1

\* C21: an on_event that spawns a task returns SinkReply::NONE without
\* waiting for the exchange: the spawn sets the result to NONE, the return
\* is enabled whatever the task and the delivery channel are doing, and
\* the result returned is NONE and stays so whether the exchange succeeds,
\* fails to decode or fails at transport level.
C21_ReturnsWithoutWaiting ==
    /\ [][\A e \in Events :
             (task[e].st = "none" /\ task'[e].st # "none")
                => pend' = "NONE" /\ sink_pc' = "return" /\ cur' = e]_vars
    /\ [](sink_pc = "return" => ENABLED OnEventReturn)
    /\ [](\A e \in Events :
             (task[e].st # "none" /\ result[e] # "pending") => result[e] = "NONE")
    /\ [][\A e \in Events : result[e] # "pending" => result'[e] = result[e]]_vars

\* on_event has returned NONE for a task still in flight, and for one
\* whose exchange failed afterwards
C21_Witness ==
    /\ \E e \in Events : result[e] = "NONE" /\ task[e].st \in {"invoke", "send"}
    /\ \E e \in Events : result[e] = "NONE" /\ Ended(e, "error")

\* ---- the header claims are checked against a decoder written on its own
Base64Index(c) == CHOOSE n \in 0..63 : Base64Table[n + 1] = c

\* the bytes a padded base64 text stands for (padding in the last four only)
RECURSIVE Base64Decode(_)
Base64Decode(cs) ==
    IF Len(cs) = 0 THEN <<>>
    ELSE IF cs[3] = "="
    THEN <<Base64Index(cs[1]) * 4 + Base64Index(cs[2]) \div 16>>
    ELSE IF cs[4] = "="
    THEN LET n == Base64Index(cs[1]) * 1024 + Base64Index(cs[2]) * 16
                      + Base64Index(cs[3]) \div 4
         IN <<n \div 256, n % 256>>
    ELSE LET n == Base64Index(cs[1]) * 262144 + Base64Index(cs[2]) * 4096
                      + Base64Index(cs[3]) * 64 + Base64Index(cs[4])
         IN <<n \div 65536, (n \div 256) % 256, n % 256>>
                \o Base64Decode(SubSeq(cs, 5, Len(cs)))

\* a text that is one base64 encoding: whole fours, '=' only at its end
IsOneEncoding(cs) ==
    /\ Len(cs) % 4 = 0
    /\ \A i \in 1..Len(cs) : cs[i] = "=" => i > Len(cs) - 2

\* characters of the encoding of n bytes
EncodedLen(n) == 4 * ((n + 2) \div 3)

AfterPrefix(h, prefix) == SubSeq(h, Len(prefix) + 1, Len(h))
HasPrefix(h, prefix) == Len(h) >= Len(prefix) /\ SubSeq(h, 1, Len(prefix)) = prefix

\* C22: for the api-key strategy the header is 'ApiKey ' followed by three
\* base64 texts one after the other, of id, of ':' and of the key; for
\* id = 'abc', key = 'xyz' it is 'ApiKey YWJjOg==eHl6' and not
\* 'ApiKey ' + base64('abc:xyz') = 'ApiKey YWJjOnh5eg=='.
C22_ApiKeyThreeEncodings ==
    \A i \in 1..Len(ret) :
        arg.kind = "elastic_api_key" =>
            /\ ret[i].ok
            /\ Len(ret[i].value) = 1
            /\ LET h == ret[i].value[1]
                   p == AfterPrefix(h, <<"A", "p", "i", "K", "e", "y", " ">>)
                   n1 == EncodedLen(Len(arg.id))
                   p1 == SubSeq(p, 1, n1)
                   p2 == SubSeq(p, n1 + 1, n1 + 4)
                   p3 == SubSeq(p, n1 + 5, Len(p))
               IN /\ HasPrefix(h, <<"A", "p", "i", "K", "e", "y", " ">>)
                  /\ IsOneEncoding(p1) /\ Base64Decode(p1) = Bytes(arg.id)
                  /\ p2 = <<"O", "g", "=", "=">>
                  /\ Base64Decode(p2) = Bytes(<<":">>)
                  /\ IsOneEncoding(p3) /\ Base64Decode(p3) = Bytes(arg.api_key)
                  /\ (arg.id = StrAbc /\ arg.api_key = StrXyz)
                        => /\ h = <<"A", "p", "i", "K", "e", "y", " ", "Y", "W", "J", "j", "O", "g", "=", "=", "e", "H", "l", "6">>
                           /\ h # <<"A", "p", "i", "K", "e", "y", " ", "Y", "W", "J", "j", "O", "n", "h", "5", "e", "g", "=", "=">>

C22_Witness ==
    /\ arg = [kind |-> "elastic_api_key", id |-> StrAbc, api_key |-> StrXyz]
    /\ Len(ret) >= 1
    /\ ret[1].value = Some(<<"A", "p", "i", "K", "e", "y", " ", "Y", "W", "J", "j", "O", "g", "=", "=", "e", "H", "l", "6">>)

\* C23: for the basic strategy the header is 'Basic ' followed by one
\* base64 text, that of username ':' password ('Basic YWxpY2U6c2VjcmV0'
\* for alice / secret); for the bearer strategy it is 'Bearer ' followed by
\* the token as it is.
C23_BasicAndBearer ==
    \A i \in 1..Len(ret) :
        /\ arg.kind = "basic" =>
              /\ ret[i].ok
              /\ Len(ret[i].value) = 1
              /\ LET h == ret[i].value[1]
                     p == AfterPrefix(h, <<"B", "a", "s", "i", "c", " ">>)
                 IN /\ HasPrefix(h, <<"B", "a", "s", "i", "c", " ">>)
                    /\ IsOneEncoding(p)
                    /\ Base64Decode(p) = Bytes(arg.username \o <<":">> \o arg.password)
                    /\ (arg.username = StrAlice /\ arg.password = StrSecret)
                          => h = <<"B", "a", "s", "i", "c", " ", "Y", "W", "x", "p", "Y", "2", "U", "6", "c", "2", "V", "j", "c", "m", "V", "0">>
        /\ arg.kind = "bearer" =>
              /\ ret[i].ok
              /\ ret[i].value = Some(<<"B", "e", "a", "r", "e", "r", " ">> \o arg.token)

C23_Witness ==
    /\ arg = [kind |-> "basic", username |-> StrAlice, password |-> StrSecret]
    /\ Len(ret) >= 1
    /\ ret[1].value = Some(<<"B", "a", "s", "i", "c", " ", "Y", "W", "x", "p", "Y", "2", "U", "6", "c", "2", "V", "j", "c", "m", "V", "0">>)

\* C24: as_header_value can fail for the external-token strategy only: for
\* none, bearer, basic and api-key every call succeeds and returns what the
\* first call returned; none gives no header, the other three give one;
\* the default strategy is none.
C24_OnlyExternalTokenFails ==
    /\ AuthDefault.kind = "none"
    /\ \A i \in 1..Len(ret) :
          /\ arg.kind # "gcp" => ret[i].ok /\ ret[i] = ret[1]
          /\ arg.kind = "none" => ret[i].value = None
          /\ arg.kind \in {"bearer", "basic", "elastic_api_key"}
                => Len(ret[i].value) = 1
          /\ ~ret[i].ok => arg.kind = "gcp"

\* the external-token strategy failed once and gave a header afterwards
C24_Witness ==
    /\ arg.kind = "gcp"
    /\ Len(ret) = MaxAuthCalls
    /\ ~ret[1].ok
    /\ ret[MaxAuthCalls].ok

\* C25: from_config on a configuration without config block fails with the
\* missing-configuration error and gives no connector, hence no channels;
\* on one with a valid block it succeeds and the connector has an empty
\* delivery channel and an empty pool-refresh channel.
C25_MissingConfigFails ==
    \A i \in 1..Len(ret) :
        ret[i].op = "from_config" =>
            /\ arg.config.state = "absent"
                  => /\ ~ret[i].res.ok
                     /\ ret[i].res.error = "MissingConfiguration"
                     /\ ret[i].res.value = None
            /\ (arg.config.state = "valid" /\ arg.config.codec_map # "invalid")
                  => /\ ret[i].res.ok
                     /\ Len(ret[i].res.value) = 1
                     /\ ret[i].res.value[1].response_chan = <<>>
                     /\ ret[i].res.value[1].clients_chan = <<>>
                     /\ ret[i].res.value[1].max_concurrency = arg.config.concurrency
            /\ ~ret[i].res.ok => ret[i].res.value = None

C25_Witness ==
    /\ arg.config.state = "absent"
    /\ Len(ret) >= 1
    /\ ret[1].op = "from_config"
    /\ ret[1].res.error = "MissingConfiguration"

\* C26: the codec of the request metadata is the one the configuration
\* names, whatever default name is passed (an unknown one too); when the
\* configuration names none it is the default name, and building fails if
\* that is not a known codec.
C26_CodecResolution ==
    \A i \in 1..Len(ret) :
        ret[i].op = "meta" =>
            /\ arg.codec \in KnownCodecs
                  => ret[i].res.ok /\ ret[i].res.value[1].codec = arg.codec
            /\ (arg.codec = "none" /\ ret[i].default_codec \in KnownCodecs)
                  => ret[i].res.ok /\ ret[i].res.value[1].codec = ret[i].default_codec
            /\ (arg.codec = "none" /\ ret[i].default_codec \notin KnownCodecs)
                  => ~ret[i].res.ok

\* msgpack configured and built with the unknown default name
C26_Witness ==
    /\ arg.codec = "msgpack"
    /\ Len(ret) >= 1
    /\ ret[1].op = "meta"
    /\ ret[1].default_codec = "snot"
    /\ ret[1].res = Ok([codec |-> "msgpack"])

\* C27 as stated: once connect() has completed and the dispatcher has
\* polled the refresh channel, the pool is not empty, for every
\* max_concurrency >= 1, and on_event does not fail for want of a client.
C27_PoolNonEmptyAfterConnect ==
    /\ (attempts >= 1 /\ clients_chan = <<>>) => clients # <<>>
    /\ \A e \in Events : polled[e] => next_ret[e] # "absent"

\* a next() call of PoolSpec
NextCallStep == calls' = calls + 1

\* C28: next() returns 'absent' exactly when the current list is empty: on
\* a non-empty list it returns a client of the list after any number of
\* next() calls and swaps, read at an index within [0, len).
C28_AbsentIffEmpty ==
    [][NextCallStep
          => /\ clients = <<>> => next_log' = next_log /\ idx' = idx
             /\ clients # <<>>
                   => /\ Len(next_log') = Len(next_log) + 1
                      /\ idx % Len(clients) \in 0..(Len(clients) - 1)
                      /\ next_log'[Len(next_log')] = clients[(idx % Len(clients)) + 1]
                      /\ \E j \in 1..Len(clients) : next_log'[Len(next_log')] = clients[j]
                      /\ idx' = idx + 1]_vars

\* after a swap next() has gone round a list of two or more clients more
\* than once
C28_Witness ==
    /\ attempts >= 2
    /\ Len(clients) >= 2
    /\ idx > Len(clients)
    /\ Len(next_log) = idx

\* the refresh poll of an on_event call
OnEventPollStep == sink_pc = "idle" /\ sink_pc' = "inc_for"

\* C29 as stated: the client on_event dispatches with comes from the list
\* delivered last: once connect() has delivered, the pool after the refresh
\* poll of on_event is the most recent list (L2 and not L1 when L1 and L2
\* were both delivered before on_event ran).
C29_UsesLatestList ==
    [][(OnEventPollStep /\ attempts >= 1)
          => clients' = NewClients(attempts, max_concurrency)]_vars

\* C30: an on_event that fails after it took the permit and a client
\* (process(), a processor lookup or the spawn fails) returns an error,
\* spawns no task and sends no reply, and its permit is released: the
\* event holds no permit after the return and the dispatcher, when idle
\* again, has room for the next event.
C30_ErrorAfterPermit ==
    /\ [][(sink_pc = "dispatch" /\ pend' = "ERR")
             => /\ acquired[cur] = 1
                /\ next_ret'[cur] = "client"
                /\ sink_pc' = "return"
                /\ UNCHANGED <<taskVars, response_chan, received, counter>>]_vars
    /\ [](\A e \in Events :
             result[e] = "ERR"
                => /\ next_ret[e] = "client"
                   /\ task[e] = NoTask
                   /\ Sent(e) = <<>>
                   /\ acquired[e] = 1
                   /\ released[e] = 1
                   /\ PermitLive(e) = 0
                   /\ sink_pc = "idle" => counter < cap_max)

\* an event failed after permit and client, and a later one was dispatched
C30_Witness ==
    \E e, f \in Events :
        /\ e < f
        /\ result[e] = "ERR"
        /\ acquired[f] = 1
        /\ task[f].st # "none"
        /\ result[f] = "NONE"

\* a step of on_event: the sink moves on (on_signal leaves sink_pc alone)
OnEventStep == sink_pc' # sink_pc

\* on_event is past its refresh poll and the pool it found is empty
InEmptyPoolCall == sink_pc # "idle" /\ clients = <<>>

\* C31: an on_event call that fails on the empty pool leaves the connector
\* as it was after its refresh poll. The poll touches neither the delivery
\* channel nor the controller, and the event starts with no permit. From
\* the poll to the return no step moves the rotation cursor, the pool or
\* the backpressure state, no step of on_event changes the delivery
\* channel, and the permit count moves only with the permits of this
\* event. At the return the event has given back what it took, so the
\* live-permit count is the one before the call, and the call reports FAIL.
C31_EmptyPoolCallFrame ==
    /\ [][(OnEventPollStep /\ clients' = <<>>)
             => /\ UNCHANGED <<response_chan, counter, cb_closed, cb_log>>
                /\ acquired'[cur'] = 0
                /\ released'[cur'] = 0]_vars
    /\ [][InEmptyPoolCall
             => /\ UNCHANGED <<idx, clients, next_log, cb_closed, cb_log>>
                /\ OnEventStep => UNCHANGED <<response_chan, taskVars>>
                /\ counter' - counter
                      = (acquired'[cur] - acquired[cur])
                           - (released'[cur] - released[cur])
                /\ sink_pc' = "idle"
                      => /\ result'[cur] = "FAIL"
                         /\ acquired'[cur] = released'[cur]
                         /\ LivePermits' = 0]_vars
    /\ [](sink_pc = "idle" => counter = 0 /\ LivePermits = 0)

\* with max_concurrency = 1 the poll took a delivered list, the list was
\* empty and the call failed after taking and giving back its permit
C31_Witness ==
    \E e \in Events :
        /\ polled[e]
        /\ result[e] = "FAIL"
        /\ next_ret[e] = "absent"
        /\ acquired[e] = 1
        /\ released[e] = 1
        /\ sink_pc = "idle"
        /\ idx = 0
        /\ counter = 0
        /\ ~cb_closed
        /\ response_chan = <<>>

\* the step of on_event that calls clients.next() on a pool with clients
DispatchStep == sink_pc = "dispatch" /\ sink_pc' = "return" /\ clients # <<>>

\* C32: a swap resets the rotation. The swapping step leaves the cursor at
\* 0 whatever it was, and the k-th next() since the swap (from 0) returns
\* client k mod M of the new list: the first one returns the list's first
\* client, and a spawned task runs on the client returned.
C32_SwapResetsRotation ==
    /\ [][SwapStep
             => /\ clients' = Head(clients_chan)
                /\ idx' = 0
                /\ next_log' = <<>>]_vars
    /\ [][DispatchStep
             => LET M == Len(clients)
                    k == Len(next_log)
                IN /\ next_log' = Append(next_log, clients[(k % M) + 1])
                   /\ k = 0 => next_log' = <<clients[1]>>
                   /\ task'[cur].st # "none"
                         => task'[cur].client = <<clients[(k % M) + 1]>>
                   /\ UNCHANGED clients]_vars

\* the first event ran on the first client of the first list, which left
\* the cursor at 1; the pool was swapped for the second list, of two
\* clients or more, and the second event ran on that list's first client
C32_Witness ==
    /\ attempts = 2
    /\ clients = NewClients(2, max_concurrency)
    /\ Len(clients) >= 2
    /\ \E e, f \in Events :
          /\ e < f
          /\ task[e].client = <<[gen |-> 1, slot |-> 1]>>
          /\ task[f].client = <<clients[1]>>
    /\ next_log = <<clients[1]>>

====
